---- MODULE Spec2Model ----
(***************************************************************************)
(* Reconciliation and aggregation engine of the social-media scorecard     *)
(* generator: the web front end (src/app.py) and the command-line front    *)
(* end (src/generate_scorecards.py).                                       *)
(*                                                                         *)
(* Text is a sequence of characters; a character is a one-character string *)
(* (a code point >= 128 is written "U+xxxx").  A datetime is a record      *)
(* [ord, min]: the proleptic Gregorian ordinal of its day and the minute   *)
(* of that day.                                                            *)
(***************************************************************************)
EXTENDS Integers, Sequences, FiniteSets, TLC

VARIABLES
    frontend,         \* "web" (app.py) or "cli" (generate_scorecards.py)
    pc,               \* position of the run
    rows,             \* load_orders: the rows csv.DictReader yields
    ri,               \* load_orders: number of rows consumed
    orders,           \* the list of orders (load_orders' result)
    encoding,         \* load_scorecard: "csv" or "xlsx"
    trows,            \* load_scorecard: the tracker's data rows
    ti,               \* load_scorecard: number of tracker rows consumed
    restaurants,      \* load_scorecard: dict norm -> record
    now,              \* determine_week: datetime.now()
    week_counts,      \* determine_week: insertion-ordered dict, as a sequence
    wi,               \* determine_week: number of orders counted
    week,             \* determine_week: the returned tuple
    order_norms,      \* build_name_map: the order keys in iteration order
    scorecard_norms,  \* build_name_map: the tracker keys in iteration order
    mi,               \* build_name_map: number of order keys consumed
    mapping,          \* build_name_map: the dict built; count's name_map
    ci,               \* count_orders_by_day: number of orders consumed
    counts,           \* count_orders_by_day: defaultdict key -> 7 counters
    name_in,          \* normalize: its argument, when called on its own
    key,              \* normalize: the values returned, latest last
    dt_in,            \* get_week_sunday: its argument, when called on its own
    sunday,           \* get_week_sunday: the value returned
    sorted_restaurants, \* the tracker keys in report order
    gi,               \* generation loop: number of restaurants handled
    html_files,       \* the HTML files written: [key, orders_per_day]
    png_files,        \* the tracker keys whose PNG was rendered
    zip_written,      \* the archive of the PNG files was written
    reported          \* the error the run has reported, or <<>>

vars == <<frontend, pc, rows, ri, orders, encoding, trows, ti, restaurants,
          now, week_counts, wi, week, order_norms, scorecard_norms, mi,
          mapping, ci, counts, name_in, key, dt_in, sunday, sorted_restaurants, gi,
          html_files, png_files, zip_written, reported>>

\* Python's None where text may be missing: a sequence that is no text.
None == <<"None">>

Range(s) == {s[i] : i \in 1..Len(s)}

\* The sequences without repetition, of length at most n, over the set S.
RECURSIVE DistinctSeqs(_, _)
DistinctSeqs(S, n) ==
    IF n = 0 THEN {<<>>}
    ELSE LET shorter == DistinctSeqs(S, n - 1)
         IN  shorter \cup UNION {{Append(s, x) : x \in S \ Range(s)} :
                                     s \in {q \in shorter : Len(q) = n - 1}}

\* The sequences of length at most n over the set S.
SeqsUpTo(S, n) == UNION {[1..k -> S] : k \in 0..n}

EmptyDict == [k \in {} |-> None]

(***************************************************************************)
(* Characters                                                              *)
(***************************************************************************)
UpperCase == <<"A","B","C","D","E","F","G","H","I","J","K","L","M","N","O",
               "P","Q","R","S","T","U","V","W","X","Y","Z">>
LowerCase == <<"a","b","c","d","e","f","g","h","i","j","k","l","m","n","o",
               "p","q","r","s","t","u","v","w","x","y","z">>
Digits == <<"0","1","2","3","4","5","6","7","8","9">>

\* The characters str.split() and str.strip() treat as whitespace.
Whitespace == {" ", "\t", "\n", "\r"}

\* The ASCII characters of the model, in code point order.
AsciiChars ==
    <<"\t", "\n", "\r", " ", "&", "-">> \o Digits \o <<":">> \o UpperCase
        \o <<"_">> \o LowerCase

\* ord(c) < 128
IsAscii(c) == c \in Range(AsciiChars)

\* The rank of a character in code point order (non-ASCII after all ASCII).
Ord(c) ==
    IF IsAscii(c) THEN CHOOSE i \in 1..Len(AsciiChars) : AsciiChars[i] = c
    ELSE Len(AsciiChars) + 1

LowerChar(c) ==
    IF c \in Range(UpperCase)
    THEN LowerCase[CHOOSE i \in 1..Len(UpperCase) : UpperCase[i] = c]
    ELSE c

UpperChar(c) ==
    IF c \in Range(LowerCase)
    THEN UpperCase[CHOOSE i \in 1..Len(LowerCase) : LowerCase[i] = c]
    ELSE c

(***************************************************************************)
(* str methods                                                             *)
(***************************************************************************)
\* s.swapcase()
Swapcase(s) ==
    [i \in 1..Len(s) |-> IF s[i] \in Range(UpperCase) THEN LowerChar(s[i])
                         ELSE UpperChar(s[i])]

\* s.lower()
Lower(s) == [i \in 1..Len(s) |-> LowerChar(s[i])]

\* s.upper()
Upper(s) == [i \in 1..Len(s) |-> UpperChar(s[i])]

RECURSIVE LStrip(_)
LStrip(s) ==
    IF s # <<>> /\ Head(s) \in Whitespace THEN LStrip(Tail(s)) ELSE s

RECURSIVE RStrip(_)
RStrip(s) ==
    IF s # <<>> /\ s[Len(s)] \in Whitespace
    THEN RStrip(SubSeq(s, 1, Len(s) - 1)) ELSE s

\* s.strip()
Strip(s) == RStrip(LStrip(s))

\* A transliteration: an accented "e" or "a" becomes the plain letter.
RECURSIVE AsciiFold(_)
AsciiFold(s) ==
    IF s = <<>> THEN <<>>
    ELSE IF IsAscii(Head(s)) THEN <<Head(s)>> \o AsciiFold(Tail(s))
         ELSE IF Head(s) = "U+00E9" THEN <<"e">> \o AsciiFold(Tail(s))
         ELSE IF Head(s) = "U+00E0" THEN <<"a">> \o AsciiFold(Tail(s))
         ELSE AsciiFold(Tail(s))

\* "".join(c for c in s if ord(c) < 128)
RECURSIVE AsciiOnly(_)
AsciiOnly(s) ==
    IF s = <<>> THEN <<>>
    ELSE IF IsAscii(Head(s)) THEN <<Head(s)>> \o AsciiOnly(Tail(s))
         ELSE AsciiOnly(Tail(s))

\* s.replace("&", "and")
RECURSIVE ReplaceAmp(_)
ReplaceAmp(s) ==
    IF s = <<>> THEN <<>>
    ELSE IF Head(s) = "&" THEN <<"a", "n", "d">> \o ReplaceAmp(Tail(s))
         ELSE <<Head(s)>> \o ReplaceAmp(Tail(s))

\* " ".join(s.split()): the words of s, one space between two words.
RECURSIVE JoinSplit(_)
JoinSplit(s) ==
    LET t == LStrip(s)
    IN  IF t = <<>> THEN <<>>
        ELSE IF Len(t) > 1 /\ t[2] \in Whitespace
             THEN IF LStrip(Tail(t)) = <<>> THEN <<t[1]>>
                  ELSE <<t[1], " ">> \o JoinSplit(Tail(t))
             ELSE <<t[1]>> \o JoinSplit(Tail(t))

\* s in t (substring test)
IsSubstr(s, t) ==
    \E i \in 0..(Len(t) - Len(s)) : SubSeq(t, i + 1, i + Len(s)) = s

\* s < t, the ordinal order of str
RECURSIVE StrLess(_, _)
StrLess(s, t) ==
    IF t = <<>> THEN FALSE
    ELSE IF s = <<>> THEN TRUE
    ELSE IF Head(s) # Head(t) THEN Ord(Head(s)) < Ord(Head(t))
    ELSE StrLess(Tail(s), Tail(t))

\* normalize(name)
normalize(name) ==
    IF name = None \/ name = <<>> THEN <<>>
    ELSE Lower(Strip(JoinSplit(ReplaceAmp(AsciiOnly(name)))))

(***************************************************************************)
(* Python floats: IEEE 754 binary64, non-negative values only.  A float is *)
(* [m, e]: the significand as MantBits bits, most significant first and    *)
(* the first one set, and the exponent of its last bit; its value is       *)
(* m * 2^e.  Zero has the empty significand.                               *)
(***************************************************************************)
MantBits == 53

DZero == [m |-> <<>>, e |-> 0]

\* The last w binary digits of a natural number, most significant first.
PadBits(n, w) == [i \in 1..w |-> (n \div 2^(w - i)) % 2]

\* The binary digits of a natural number below 2^30, without leading zeros.
NatBits(n) ==
    PadBits(n, CHOOSE l \in 0..30 : n < 2^l /\ (l = 0 \/ n >= 2^(l - 1)))

RECURSIVE BitsNat(_)
BitsNat(b) ==
    IF b = <<>> THEN 0 ELSE 2 * BitsNat(SubSeq(b, 1, Len(b) - 1)) + b[Len(b)]

\* b + 1 on binary digits
IncBits(b) ==
    LET zeros == {i \in 1..Len(b) : b[i] = 0}
    IN  IF zeros = {} THEN <<1>> \o [i \in 1..Len(b) |-> 0]
        ELSE LET p == CHOOSE i \in zeros : \A j \in zeros : j <= i
             IN  [i \in 1..Len(b) |-> IF i < p THEN b[i] ELSE IF i = p THEN 1 ELSE 0]

\* b * k + c on binary digits, k and c natural numbers
RECURSIVE MulBits(_, _, _)
MulBits(b, k, c) ==
    IF b = <<>> THEN NatBits(c)
    ELSE LET w  == IF Len(b) < 8 THEN Len(b) ELSE 8
             lo == SubSeq(b, Len(b) - w + 1, Len(b))
             t  == BitsNat(lo) * k + c
         IN  MulBits(SubSeq(b, 1, Len(b) - w), k, t \div 2^w) \o PadBits(t % 2^w, w)

\* The float nearest to bits * 2^e (plus a non-zero rest below the last bit
\* when sticky), ties to the even significand.  bits starts with a 1.
RoundD(bits, e, sticky) ==
    IF Len(bits) <= MantBits
    THEN [m |-> bits \o [i \in 1..(MantBits - Len(bits)) |-> 0],
          e |-> e - (MantBits - Len(bits))]
    ELSE LET keep == SubSeq(bits, 1, MantBits)
             rest == SubSeq(bits, MantBits + 1, Len(bits))
             more == sticky \/ \E i \in 2..Len(rest) : rest[i] = 1
             up   == rest[1] = 1 /\ (more \/ keep[MantBits] = 1)
             e2   == e + Len(rest)
             inc  == IncBits(keep)
         IN  IF ~up THEN [m |-> keep, e |-> e2]
             ELSE IF Len(inc) > MantBits
                  THEN [m |-> SubSeq(inc, 1, MantBits), e |-> e2 + 1]
                  ELSE [m |-> inc, e |-> e2]

\* Long division r / d continued below the digits already known, eight
\* binary digits a step, until more digits than the significand are known.
RECURSIVE DivBits(_, _, _, _)
DivBits(bits, r, d, e) ==
    IF Len(bits) > MantBits THEN RoundD(bits, e, r # 0)
    ELSE LET q == (r * 2^8) \div d
         IN  DivBits(IF bits = <<>> THEN NatBits(q)
                     ELSE bits \o PadBits(q, 8),
                     (r * 2^8) % d, d, e - 8)

\* float(n) / float(d) for natural numbers n and d > 0
DivD(n, d) == IF n = 0 THEN DZero ELSE DivBits(NatBits(n \div d), n % d, d, 0)

\* x * float(k) for a float x and a natural number k
MulD(x, k) ==
    IF x.m = <<>> \/ k = 0 THEN DZero ELSE RoundD(MulBits(x.m, k, 0), x.e, FALSE)

\* int(x): truncation toward zero
TruncD(x) ==
    IF x.m = <<>> \/ Len(x.m) + x.e <= 0 THEN 0
    ELSE IF x.e >= 0 THEN BitsNat(x.m) * 2^(x.e)
    ELSE BitsNat(SubSeq(x.m, 1, Len(x.m) + x.e))

BitsLess(a, b) ==
    \E i \in 1..Len(a) : a[i] < b[i] /\ \A j \in 1..(i - 1) : a[j] = b[j]

\* x < y
DLess(x, y) ==
    IF y.m = <<>> THEN FALSE
    ELSE IF x.m = <<>> THEN TRUE
    ELSE x.e < y.e \/ (x.e = y.e /\ BitsLess(x.m, y.m))

(***************************************************************************)
(* difflib.SequenceMatcher and difflib.get_close_matches, for sequences    *)
(* shorter than the 200 elements at which the automatic junk heuristic     *)
(* starts.  a is seq1 (the possibility), b is seq2 (the word).             *)
(***************************************************************************)
\* The length of the longest common prefix of a[i:ahi] and b[j:bhi].
RECURSIVE CommonLen(_, _, _, _, _, _)
CommonLen(a, b, i, j, ahi, bhi) ==
    IF i < ahi /\ j < bhi /\ a[i + 1] = b[j + 1]
    THEN 1 + CommonLen(a, b, i + 1, j + 1, ahi, bhi)
    ELSE 0

\* SequenceMatcher.find_longest_match: <<i, j, k>> with a[i:i+k] = b[j:j+k],
\* k maximal, then i minimal, then j minimal.
find_longest_match(a, b, alo, ahi, blo, bhi) ==
    LET cand == {p \in (alo..(ahi - 1)) \X (blo..(bhi - 1)) : a[p[1] + 1] = b[p[2] + 1]}
        size == [p \in cand |-> CommonLen(a, b, p[1], p[2], ahi, bhi)]
    IN  IF cand = {} THEN <<alo, blo, 0>>
        ELSE LET k    == CHOOSE n \in {size[p] : p \in cand} :
                             \A p \in cand : size[p] <= n
                 long == {p \in cand : size[p] = k}
                 best == CHOOSE p \in long : \A q \in long :
                             p[1] < q[1] \/ (p[1] = q[1] /\ p[2] <= q[2])
             IN  <<best[1], best[2], k>>

\* The sum of the sizes of SequenceMatcher.get_matching_blocks().
RECURSIVE matching_size(_, _, _, _, _, _)
matching_size(a, b, alo, ahi, blo, bhi) ==
    LET x == find_longest_match(a, b, alo, ahi, blo, bhi)
        i == x[1]
        j == x[2]
        k == x[3]
    IN  IF k = 0 THEN 0
        ELSE k + (IF alo < i /\ blo < j
                  THEN matching_size(a, b, alo, i, blo, j) ELSE 0)
               + (IF i + k < ahi /\ j + k < bhi
                  THEN matching_size(a, b, i + k, ahi, j + k, bhi) ELSE 0)

\* difflib._calculate_ratio
calculate_ratio(matches, length) ==
    IF length # 0 THEN DivD(2 * matches, length) ELSE DivD(1, 1)

\* SequenceMatcher.ratio
ratio(a, b) ==
    calculate_ratio(matching_size(a, b, 0, Len(a), 0, Len(b)), Len(a) + Len(b))

CountOf(c, s) == Cardinality({i \in 1..Len(s) : s[i] = c})

\* SequenceMatcher.quick_ratio: the size of the multiset intersection
quick_ratio(a, b) ==
    LET common(c) == IF CountOf(c, a) < CountOf(c, b) THEN CountOf(c, a)
                     ELSE CountOf(c, b)
        RECURSIVE Sum(_)
        Sum(S) == IF S = {} THEN 0
                  ELSE LET c == CHOOSE c \in S : TRUE
                       IN  common(c) + Sum(S \ {c})
    IN  calculate_ratio(Sum(Range(a)), Len(a) + Len(b))

\* SequenceMatcher.real_quick_ratio
real_quick_ratio(a, b) ==
    calculate_ratio(IF Len(a) < Len(b) THEN Len(a) ELSE Len(b), Len(a) + Len(b))

\* A cutoff of 0.4.
Cutoff_Low == DivD(4, 10)

\* The cutoff 0.6 of the fuzzy fallback
Cutoff == DivD(6, 10)

\* difflib.get_close_matches(word, possibilities, n=1, cutoff): the list of
\* the best possibility by (ratio, possibility), empty when none reaches
\* the cutoff.
get_close_matches(word, possibilities, cutoff) ==
    LET result == {x \in possibilities :
                      /\ ~DLess(real_quick_ratio(x, word), cutoff)
                      /\ ~DLess(quick_ratio(x, word), cutoff)
                      /\ ~DLess(ratio(x, word), cutoff)}
        score == [x \in result |-> ratio(x, word)]
    IN  IF result = {} THEN <<>>
        ELSE <<CHOOSE x \in result : \A y \in result :
                   \/ y = x
                   \/ DLess(score[y], score[x])
                   \/ (score[y] = score[x] /\ StrLess(y, x))>>

(***************************************************************************)
(* Module constants                                                        *)
(***************************************************************************)
\* MANUAL_NAME_MAP (command-line front end), as a sequence of <<key, value>>.
MANUAL_NAME_MAP ==
    LET sp == <<" ">>
        w_3a == <<"3","a">>
        w_and == <<"a","n","d">>
        w_azul == <<"a","z","u","l">>
        w_bar == <<"b","a","r">>
        w_cake == <<"c","a","k","e">>
        w_cakes == <<"c","a","k","e","s">>
        w_cuisine == <<"c","u","i","s","i","n","e">>
        w_everybuddy == <<"e","v","e","r","y","b","u","d","d","y">>
        w_fire == <<"f","i","r","e">>
        w_fit == <<"f","i","t">>
        w_flour == <<"f","l","o","u","r">>
        w_ikura == <<"i","k","u","r","a">>
        w_japanese == <<"j","a","p","a","n","e","s","e">>
        w_jo == <<"j","o">>
        w_nutrition == <<"n","u","t","r","i","t","i","o","n">>
        w_pachi == <<"p","a","c","h","i">>
        w_pasta == <<"p","a","s","t","a">>
        w_pastry == <<"p","a","s","t","r","y">>
        w_pizza == <<"p","i","z","z","a">>
        w_restaurant == <<"r","e","s","t","a","u","r","a","n","t">>
        w_saj == <<"s","a","j">>
        w_secrets == <<"s","e","c","r","e","t","s">>
        w_shawerma == <<"s","h","a","w","e","r","m","a">>
        w_sofia == <<"s","o","f","i","a">>
        w_supplements == <<"s","u","p","p","l","e","m","e","n","t","s">>
        w_the == <<"t","h","e">>
        w_turkish == <<"t","u","r","k","i","s","h">>
    IN  <<
           <<w_shawerma \o sp \o w_3a \o sp \o w_saj,
             w_shawerma \o sp \o w_saj>>,
           <<w_everybuddy \o sp \o w_nutrition \o sp \o w_supplements,
             w_everybuddy>>,
           <<w_pachi \o sp \o w_pizza \o sp \o w_and \o sp \o w_pasta,
             w_pachi \o sp \o w_pizza>>,
           <<w_azul \o sp \o w_pastry,
             w_azul>>,
           <<w_ikura \o sp \o w_japanese \o sp \o w_cuisine,
             w_ikura>>,
           <<w_the \o sp \o w_fit \o sp \o w_bar,
             w_the \o sp \o w_fit \o sp \o w_bar \o sp \o w_jo>>,
           <<w_sofia \o sp \o w_turkish \o sp \o w_restaurant,
             w_sofia>>,
           <<w_secrets \o sp \o w_cakes,
             w_secrets \o sp \o w_cake>>,
           <<w_flour \o sp \o w_and \o sp \o w_fire,
             w_flour \o sp \o w_and \o sp \o w_fire>>
        >>

EXCLUDED_PLACES == {<<"o","p","i"," ","o","r","d","e","r","s">>}

EXCLUDED_STATUSES == {<<"c","a","n","c","e","l","l","e","d">>,
                      <<"r","e","j","e","c","t","e","d"," ","b","y"," ","p","l","a","c","e">>}

\* csv_n in MANUAL_NAME_MAP
InManual(csv_n) == \E i \in 1..Len(MANUAL_NAME_MAP) : MANUAL_NAME_MAP[i][1] = csv_n

\* MANUAL_NAME_MAP[csv_n]
Manual(csv_n) ==
    MANUAL_NAME_MAP[CHOOSE i \in 1..Len(MANUAL_NAME_MAP) :
                        MANUAL_NAME_MAP[i][1] = csv_n][2]

(***************************************************************************)
(* Dictionaries are functions on their key set.                            *)
(***************************************************************************)
Put(d, k, v) == [x \in (DOMAIN d) \cup {k} |-> IF x = k THEN v ELSE d[x]]

Values(d) == {d[k] : k \in DOMAIN d}

\* sum(q)
RECURSIVE SumSeq(_)
SumSeq(q) == IF q = <<>> THEN 0 ELSE Head(q) + SumSeq(Tail(q))

Frontends == {"web", "cli"}

(***************************************************************************)
(* datetime: [ord, min], the ordinal of the day (1 = 1 January of year 1)  *)
(* and the minute of the day.  Seconds are not modelled: the order log's   *)
(* date format has none, and the code reads the current instant only       *)
(* through its day.                                                        *)
(***************************************************************************)
DAYS_IN_MONTH == <<31, 28, 31, 30, 31, 30, 31, 31, 30, 31, 30, 31>>

\* strftime("%B")
MONTH_NAMES == <<"January", "February", "March", "April", "May", "June", "July",
                 "August", "September", "October", "November", "December">>

is_leap(y) == y % 4 = 0 /\ (y % 100 # 0 \/ y % 400 = 0)

days_in_month(y, m) == IF m = 2 /\ is_leap(y) THEN 29 ELSE DAYS_IN_MONTH[m]

days_before_year(y) ==
    (y - 1) * 365 + ((y - 1) \div 4) - ((y - 1) \div 100) + ((y - 1) \div 400)

DAYS_BEFORE_MONTH == <<0, 31, 59, 90, 120, 151, 181, 212, 243, 273, 304, 334>>

days_before_month(y, m) ==
    DAYS_BEFORE_MONTH[m] + (IF m > 2 /\ is_leap(y) THEN 1 ELSE 0)

\* date(y, m, d).toordinal()
ymd2ord(y, m, d) == days_before_year(y) + days_before_month(y, m) + d

\* date.fromordinal(n).year
YearOf(n) ==
    CHOOSE y \in (n \div 366)..((n \div 365) + 1) :
        days_before_year(y) < n /\ n <= days_before_year(y + 1)

\* date.fromordinal(n).month
MonthOf(n) ==
    LET y == YearOf(n)
        r == n - days_before_year(y)
    IN  CHOOSE m \in 1..12 :
            days_before_month(y, m) < r /\ r <= days_before_month(y, m) + days_in_month(y, m)

\* date.fromordinal(n).day
DayOf(n) ==
    LET y == YearOf(n)
    IN  n - days_before_year(y) - days_before_month(y, MonthOf(n))

\* datetime(y, m, d, h, minute)
DateTime(y, m, d, h, minute) == [ord |-> ymd2ord(y, m, d), min |-> 60 * h + minute]

\* The value standing for None where a datetime is expected.
NoDate == [ord |-> 0, min |-> 0]

\* a < b on datetimes
DtLess(a, b) == a.ord < b.ord \/ (a.ord = b.ord /\ a.min < b.min)

\* dt + timedelta(days=n)
PlusDays(dt, n) == [ord |-> dt.ord + n, min |-> dt.min]

\* dt.weekday(): Monday is 0, Sunday is 6
weekday(dt) == (dt.ord + 6) % 7

\* A day of the week that counts from Monday.
day_of_week_monday_start(dt) == weekday(dt)

\* day_of_week_sunday_start(dt): Sunday is 0, Saturday is 6
day_of_week_sunday_start(dt) == (weekday(dt) + 1) % 7

\* get_week_sunday(dt)
get_week_sunday(dt) ==
    [ord |-> PlusDays(dt, 0 - day_of_week_sunday_start(dt)).ord, min |-> 0]

(***************************************************************************)
(* Values of the variables a function under study does not use.            *)
(***************************************************************************)
NoWeek == [start |-> NoDate, month |-> "", year |-> 0, num |-> 0]

OrdersIdle == rows = <<>> /\ ri = 0

TrackerIdle == encoding = "csv" /\ trows = <<>> /\ ti = 0 /\ restaurants = EmptyDict

WeekIdle == now = NoDate /\ week_counts = <<>> /\ wi = 0 /\ week = NoWeek

MapIdle ==
    order_norms = <<>> /\ scorecard_norms = <<>> /\ mi = 0 /\ mapping = EmptyDict

CountIdle == ci = 0 /\ counts = EmptyDict

FnIdle == name_in = <<>> /\ key = <<>> /\ dt_in = NoDate /\ sunday = NoDate

GenIdle ==
    /\ sorted_restaurants = <<>> /\ gi = 0 /\ html_files = <<>>
    /\ png_files = {} /\ zip_written = FALSE /\ reported = <<>>

fnVars == <<name_in, key, dt_in, sunday>>

genVars == <<sorted_restaurants, gi, html_files, png_files, zip_written, reported>>

ordersVars == <<rows, ri>>
trackerVars == <<encoding, trows, ti, restaurants>>
weekVars == <<now, week_counts, wi, week>>
mapVars == <<order_norms, scorecard_norms, mi, mapping>>
countVars == <<ci, counts>>

(***************************************************************************)
(* build_name_map                                                          *)
(***************************************************************************)
\* ContainsMatch testing one direction only ("sc_n in csv_n").
ContainsMatch_OneWay(csv_n, sc_norms) ==
    LET hits == {i \in 1..Len(sc_norms) : IsSubstr(sc_norms[i], csv_n)}
    IN  IF hits = {} THEN None
        ELSE sc_norms[CHOOSE i \in hits : \A j \in hits : i <= j]

\* The first tracker key, in the iteration order of the set, that contains
\* csv_n or is contained in it; None when there is none.
ContainsMatch(csv_n, sc_norms) ==
    LET hits == {i \in 1..Len(sc_norms) :
                    IsSubstr(sc_norms[i], csv_n) \/ IsSubstr(csv_n, sc_norms[i])}
    IN  IF hits = {} THEN None
        ELSE sc_norms[CHOOSE i \in hits : \A j \in hits : i <= j]

\* NameMapEntryWeb trying substring containment before the exact match.
NameMapEntryWeb_ContainsFirst(csv_n, sc_norms) ==
    IF ContainsMatch(csv_n, sc_norms) # None THEN ContainsMatch(csv_n, sc_norms)
    ELSE IF csv_n \in Range(sc_norms) THEN csv_n
    ELSE LET matches == get_close_matches(csv_n, Range(sc_norms), Cutoff)
         IN  IF matches # <<>> THEN matches[1] ELSE None

\* The body of the loop of app.py's build_name_map for one order key: the
\* tracker key stored for csv_n, or None when nothing is stored.
NameMapEntryWeb(csv_n, sc_norms) ==
    IF csv_n \in Range(sc_norms) THEN csv_n
    ELSE IF ContainsMatch(csv_n, sc_norms) # None
         THEN ContainsMatch(csv_n, sc_norms)
         ELSE LET matches == get_close_matches(csv_n, Range(sc_norms), Cutoff)
              IN  IF matches # <<>> THEN matches[1] ELSE None

\* The body of the loop of generate_scorecards.py's build_name_map.
NameMapEntryCli(csv_n, sc_norms) ==
    IF csv_n \in Range(sc_norms) THEN csv_n
    ELSE IF InManual(csv_n) /\ Manual(csv_n) \in Range(sc_norms) THEN Manual(csv_n)
    ELSE ContainsMatch(csv_n, sc_norms)

NameMapEntry(fe, csv_n, sc_norms) ==
    IF fe = "web" THEN NameMapEntryWeb(csv_n, sc_norms)
    ELSE NameMapEntryCli(csv_n, sc_norms)

\* mapping after the loop body has run for csv_n
NameMapPut(fe, m, csv_n, sc_norms) ==
    IF NameMapEntry(fe, csv_n, sc_norms) = None THEN m
    ELSE Put(m, csv_n, NameMapEntry(fe, csv_n, sc_norms))

\* build_name_map(order_norms, scorecard_norms), both in iteration order
RECURSIVE build_name_map(_, _, _)
build_name_map(fe, o_norms, sc_norms) ==
    IF o_norms = <<>> THEN EmptyDict
    ELSE NameMapPut(fe, build_name_map(fe, SubSeq(o_norms, 1, Len(o_norms) - 1), sc_norms),
                    o_norms[Len(o_norms)], sc_norms)

\* One iteration of "for csv_n in order_norms".
MapStep ==
    /\ pc = "map"
    /\ mi < Len(order_norms)
    /\ mapping' = NameMapPut(frontend, mapping, order_norms[mi + 1], scorecard_norms)
    /\ mi' = mi + 1
    /\ UNCHANGED <<fnVars, genVars, frontend, pc, orders, order_norms, scorecard_norms,
                   ordersVars, trackerVars, weekVars, countVars>>

\* "return mapping"
MapReturn ==
    /\ pc = "map"
    /\ mi = Len(order_norms)
    /\ pc' = "map_done"
    /\ UNCHANGED <<fnVars, genVars, frontend, orders, mapVars, ordersVars, trackerVars, weekVars,
                   countVars>>

\* Normalized keys the name reconciler is run on.
TrackerKeyUniverse ==
    { <<>>, <<"a">>, <<"a","b">>, <<"a","a","b">>,
      <<"p","a","c","h","i"," ","p","i","z","z","a">>,
      <<"s","h","a","w","e","r","m","a"," ","s","a","j">>,
      <<"s","h","a","w","e","r","m","a"," ","3","a"," ","s","a","j"," ","2">> }

OrderKeyUniverse ==
    { <<>>, <<"a">>, <<"a","b">>, <<"a","b","a">>,
      <<"p","i","z","z","a"," ","p","a","c","h","i">>,
      <<"p","a","c","h","i"," ","p","i","z","z","a"," ","a","n","d"," ","p","a","s","t","a">>,
      <<"s","h","a","w","e","r","m","a"," ","3","a"," ","s","a","j">> }

MaxTrackerKeys == 3

MaxOrderKeys == 1

\* build_name_map is entered with two sets of keys, each in some iteration order.
MapInit ==
    /\ frontend \in Frontends
    /\ pc = "map"
    /\ orders = <<>>
    /\ order_norms \in DistinctSeqs(OrderKeyUniverse, MaxOrderKeys)
    /\ scorecard_norms \in DistinctSeqs(TrackerKeyUniverse, MaxTrackerKeys)
    /\ mi = 0
    /\ mapping = EmptyDict
    /\ OrdersIdle /\ TrackerIdle /\ WeekIdle /\ CountIdle /\ FnIdle /\ GenIdle

MapNext == MapStep \/ MapReturn

SpecMap == MapInit /\ [][MapNext]_vars

(***************************************************************************)
(* parse_date: datetime.strptime(date_str.strip(), "%d %b %Y %I:%M %p")    *)
(***************************************************************************)
\* The words of s, separated by runs of whitespace.
RECURSIVE Words(_)
Words(s) ==
    LET u == LStrip(s)
    IN  IF u = <<>> THEN <<>>
        ELSE LET n == CHOOSE i \in 1..Len(u) :
                          /\ \A j \in 1..i : u[j] \notin Whitespace
                          /\ (i = Len(u) \/ u[i + 1] \in Whitespace)
             IN  <<SubSeq(u, 1, n)>> \o Words(SubSeq(u, n + 1, Len(u)))

IsDigits(w) == w # <<>> /\ \A i \in 1..Len(w) : w[i] \in Range(Digits)

DigitVal(c) == (CHOOSE i \in 1..Len(Digits) : Digits[i] = c) - 1

RECURSIVE ParseNat(_)
ParseNat(w) ==
    IF w = <<>> THEN 0
    ELSE 10 * ParseNat(SubSeq(w, 1, Len(w) - 1)) + DigitVal(w[Len(w)])

\* %b: the abbreviated month names, matched without regard to case
MONTH_ABBR ==
    <<<<"j","a","n">>,
      <<"f","e","b">>,
      <<"m","a","r">>,
      <<"a","p","r">>,
      <<"m","a","y">>,
      <<"j","u","n">>,
      <<"j","u","l">>,
      <<"a","u","g">>,
      <<"s","e","p">>,
      <<"o","c","t">>,
      <<"n","o","v">>,
      <<"d","e","c">>>>

\* The fields "%d %b %Y %I:%M %p" finds in the text, each as a number; the
\* empty sequence when the text does not match the format.
strptime_fields(text) ==
    LET w == Words(text)
    IN  IF Len(w) # 5 THEN <<>>
        ELSE LET colon == {i \in 1..Len(w[4]) : w[4][i] = ":"}
                 c     == CHOOSE i \in colon : TRUE
                 hh    == SubSeq(w[4], 1, c - 1)
                 mm    == SubSeq(w[4], c + 1, Len(w[4]))
                 mon   == {i \in 1..12 : MONTH_ABBR[i] = Lower(w[2])}
                 pm    == Lower(w[5])
             IN  IF /\ IsDigits(w[1]) /\ Len(w[1]) <= 2
                    /\ ParseNat(w[1]) \in 1..31
                    /\ mon # {}
                    /\ IsDigits(w[3]) /\ Len(w[3]) = 4
                    /\ Cardinality(colon) = 1
                    /\ IsDigits(hh) /\ Len(hh) <= 2 /\ ParseNat(hh) \in 1..12
                    /\ IsDigits(mm) /\ Len(mm) <= 2 /\ ParseNat(mm) \in 0..59
                    /\ pm \in {<<"a", "m">>, <<"p", "m">>}
                 THEN <<ParseNat(w[1]), CHOOSE i \in mon : TRUE, ParseNat(w[3]),
                        ParseNat(hh), ParseNat(mm), IF pm = <<"p", "m">> THEN 1 ELSE 0>>
                 ELSE <<>>

\* parse_date(date_str) for a text: the datetime, or NoDate for the None
\* returned when strptime raises ValueError (no match, or no such day).
parse_date(date_str) ==
    LET f == strptime_fields(Strip(date_str))
    IN  IF f = <<>> THEN NoDate
        ELSE IF f[3] < 1 \/ f[1] > days_in_month(f[3], f[2]) THEN NoDate
        ELSE DateTime(f[3], f[2], f[1], (f[4] % 12) + 12 * f[6], f[5])

(***************************************************************************)
(* load_orders                                                             *)
(***************************************************************************)
\* row.get(col, ""): a row of csv.DictReader is a function on the header's
\* columns; a cell the data row is too short for holds None.
RowGet(row, col) == IF col \in DOMAIN row THEN row[col] ELSE <<>>

\* The loop body raises: .strip() is called on None (AttributeError).
RowRaises(row) ==
    \/ RowGet(row, "Place") = None
    \/ RowGet(row, "Status") = None
    \/ RowGet(row, "Date") = None

\* A filter that keeps the rows of every status.
RowKept_AnyStatus(row) ==
    LET place == Strip(RowGet(row, "Place"))
        date  == parse_date(RowGet(row, "Date"))
    IN  /\ ~(place = <<>> \/ date = NoDate)
        /\ normalize(place) \notin EXCLUDED_PLACES

\* The loop body appends an order for the row.
RowKept(row) ==
    LET place  == Strip(RowGet(row, "Place"))
        status == Strip(RowGet(row, "Status"))
        date   == parse_date(RowGet(row, "Date"))
    IN  /\ ~(place = <<>> \/ date = NoDate)
        /\ normalize(place) \notin EXCLUDED_PLACES
        /\ Lower(status) \notin EXCLUDED_STATUSES

\* The order appended for the row.
RowOrder(row) ==
    [place |-> Strip(RowGet(row, "Place")),
     date  |-> parse_date(RowGet(row, "Date")),
     norm  |-> normalize(Strip(RowGet(row, "Place")))]

\* One iteration of "for row in reader".
LoadOrdersRow ==
    /\ pc = "load_orders"
    /\ ri < Len(rows)
    /\ pc' = IF RowRaises(rows[ri + 1]) THEN "orders_raised" ELSE pc
    /\ ri' = IF RowRaises(rows[ri + 1]) THEN ri ELSE ri + 1
    /\ orders' = IF ~RowRaises(rows[ri + 1]) /\ RowKept(rows[ri + 1])
                 THEN Append(orders, RowOrder(rows[ri + 1]))
                 ELSE orders
    /\ UNCHANGED <<fnVars, genVars, frontend, rows, trackerVars, weekVars, mapVars, countVars>>

\* "return orders"
LoadOrdersReturn ==
    /\ pc = "load_orders"
    /\ ri = Len(rows)
    /\ pc' = "orders_done"
    /\ UNCHANGED <<fnVars, genVars, frontend, orders, ordersVars, trackerVars, weekVars, mapVars,
                   countVars>>

\* Cells of the order log: a cell missing from a short row, an empty cell,
\* and texts.
PlaceCells ==
    { None, <<>>, <<" ">>, <<" ","A","b"," ">>, <<"O","P","I"," "," ","O","r","d","e","r","s">> }

StatusCells ==
    { None, <<"D","e","l","i","v","e","r","e","d">>, <<" ","C","a","n","c","e","l","l","e","d">>,
      <<"R","E","J","E","C","T","E","D"," ","B","Y"," ","P","L","A","C","E">> }

DateCells ==
    { None, <<"2","1"," ","F","e","b"," ","2","0","2","6"," ","1","1",":","5","7"," ","p","m">>, <<"3","0"," ","F","e","b"," ","2","0","2","6"," ","1",":","0","5"," ","A","M">> }

\* The cells a column of the order log may hold.
OrderCells(col) ==
    IF col = "Place" THEN PlaceCells
    ELSE IF col = "Status" THEN StatusCells
    ELSE DateCells

\* The rows of an order log whose header has the columns cols.
OrderRows(cols) ==
    {r \in [cols -> PlaceCells \cup StatusCells \cup DateCells] :
        \A c \in cols : r[c] \in OrderCells(c)}

\* The headers of the order logs read: all three columns, or one missing.
OrderHeaders ==
    { {"Place", "Status", "Date"}, {"Place", "Date"}, {"Status", "Date"},
      {"Place", "Status"} }

MaxRows == 2

\* load_orders is entered with the rows of one order log.
OrdersInit ==
    /\ frontend \in Frontends
    /\ pc = "load_orders"
    /\ \E cols \in OrderHeaders : rows \in SeqsUpTo(OrderRows(cols), MaxRows)
    /\ ri = 0
    /\ orders = <<>>
    /\ TrackerIdle /\ WeekIdle /\ MapIdle /\ CountIdle /\ FnIdle /\ GenIdle

OrdersNext == LoadOrdersRow \/ LoadOrdersReturn

SpecOrders == OrdersInit /\ [][OrdersNext]_vars

(***************************************************************************)
(* load_scorecard.  A tracker row is the sequence of its first twelve      *)
(* cells (fewer in a short row of the delimited text): the name, then      *)
(* tip-and-tag, Instagram, Facebook, Google, then Sunday to Saturday.  A   *)
(* cell of the delimited text is a text; a cell of the spreadsheet is a    *)
(* text, None (empty), PyTrue or PyFalse (a boolean).  trows holds the     *)
(* data rows: reader[4:] of the delimited text, rows 5 to max_row of the   *)
(* sheet.  A flag is "True", "False" or "NA".                              *)
(***************************************************************************)
PyTrue == <<"PyTrue">>

PyFalse == <<"PyFalse">>

\* A cell of the sheet that holds a number other than 0.
PyInt == <<"PyInt">>

\* val(col_val) of the delimited text
val(col_val) ==
    LET cv == Upper(Strip(col_val))
    IN  IF cv = <<"T","R","U","E">> THEN "True"
        ELSE IF cv = <<"F","A","L","S","E">> THEN "False"
        ELSE IF cv = <<"N","A">> THEN "NA"
        ELSE "False"

\* val_xl(col) of the spreadsheet, on the cell's value v
val_xl(v) ==
    IF v = PyTrue THEN "True"
    ELSE IF v = PyFalse THEN "False"
    ELSE IF v \notin {None, PyTrue, PyFalse} /\ Upper(Strip(v)) = <<"N","A">> THEN "NA"
    ELSE "False"

\* true_count of the delimited text counting tip-and-tag too.
true_count_csv_all(row) == Cardinality({c \in 1..11 : val(row[c + 1]) = "True"})

\* true_count of the delimited text: row[2] to row[11], counted from 0
true_count_csv(row) == Cardinality({c \in 2..11 : val(row[c + 1]) = "True"})

\* true_count of the spreadsheet: columns 3 to 12, counted from 1
true_count_xl(row) == Cardinality({c \in 3..12 : row[c] = PyTrue})

\* The score dividing by the number of all eleven flags.
score_web_eleven(true_count) == TruncD(MulD(DivD(true_count, 11), 100))

\* int((true_count / 10.0) * 100), app.py
score_web(true_count) == TruncD(MulD(DivD(true_count, 10), 100))

\* int(true_count * 10), generate_scorecards.py
score_cli(true_count) == true_count * 10

\* The row is skipped: too short, no name, or the totals row.
TrackerRowSkipped(enc, row) ==
    \/ enc = "csv" /\ (row = <<>> \/ Len(row) < 12)
    \/ row[1] = None
    \/ row[1] = <<>>
    \/ Lower(Strip(row[1])) = <<"s","u","m">>

\* The loop body raises: .strip() is called on a number (AttributeError).
\* The cells of the delimited text are all text.
TrackerRowRaises(enc, row) == enc = "xlsx" /\ row[1] = PyInt

\* The record stored for the row.
TrackerRecord(fe, enc, row) ==
    LET flag(c) == IF enc = "csv" THEN val(row[c]) ELSE val_xl(row[c])
    IN  [display_name |-> Strip(row[1]),
         tip_tag      |-> flag(2),
         ig           |-> flag(3),
         fb           |-> flag(4),
         google       |-> flag(5),
         stories      |-> [d \in 1..7 |-> flag(5 + d)],
         score        |-> IF enc = "csv" THEN score_web(true_count_csv(row))
                          ELSE IF fe = "web" THEN score_web(true_count_xl(row))
                          ELSE score_cli(true_count_xl(row))]

\* The loop body keeping the record a key already has.
restaurants_after_first_wins(fe, enc, r, row) ==
    IF TrackerRowSkipped(enc, row) \/ normalize(row[1]) \in DOMAIN r THEN r
    ELSE Put(r, normalize(row[1]), TrackerRecord(fe, enc, row))

\* restaurants after the loop body has run for the row
restaurants_after(fe, enc, r, row) ==
    IF TrackerRowSkipped(enc, row) THEN r
    ELSE Put(r, normalize(row[1]), TrackerRecord(fe, enc, row))

\* One iteration of the loop over the tracker's data rows.
LoadTrackerRow ==
    /\ pc = "load_scorecard"
    /\ ti < Len(trows)
    /\ pc' = IF TrackerRowRaises(encoding, trows[ti + 1]) THEN "tracker_raised" ELSE pc
    /\ ti' = IF TrackerRowRaises(encoding, trows[ti + 1]) THEN ti ELSE ti + 1
    /\ restaurants' = IF TrackerRowRaises(encoding, trows[ti + 1]) THEN restaurants
                      ELSE restaurants_after(frontend, encoding, restaurants,
                                             trows[ti + 1])
    /\ UNCHANGED <<fnVars, genVars, frontend, orders, encoding, trows, ordersVars, weekVars,
                   mapVars, countVars>>

\* "return restaurants"
LoadTrackerReturn ==
    /\ pc = "load_scorecard"
    /\ ti = Len(trows)
    /\ pc' = "tracker_done"
    /\ UNCHANGED <<fnVars, genVars, frontend, orders, ordersVars, trackerVars, weekVars, mapVars,
                   countVars>>

\* A tracker row: the name, tip-and-tag, then ten scored cells of which the
\* n from position from on hold yes and the others no.
FlagRow(name, tip, from, n, yes, no) ==
    <<name, tip>> \o [i \in 1..10 |-> IF from <= i /\ i < from + n THEN yes ELSE no]

\* Rows of a tracker in the delimited text: every number of true flags, the
\* other cells FALSE, NA or blank; tip-and-tag set with no and with all
\* other flags; a totals row, a row without a name, a row whose name is a space and a
\* short row.
CsvTrackerRows ==
    {FlagRow(<<"P","a","c","h","i"," ","P","i","z","z","a">>, <<"F","A","L","S","E">>, 1, k,
             <<"T","R","U","E">>, IF k % 2 = 0 THEN <<"F","A","L","S","E">> ELSE <<"N","A">>) : k \in 0..10}
    \cup {FlagRow(<<"P","A","C","H","I"," "," ","P","I","Z","Z","A">>, <<"T","R","U","E">>, 8, k, <<" ","t","r","u","e">>, <<>>) : k \in {0, 3}}
    \cup {FlagRow(<<"A","z","u","l">>, <<"T","R","U","E">>, 1, 10, <<"T","R","U","E">>, <<>>),
          FlagRow(<<"S","U","M"," ">>, <<>>, 1, 10, <<"T","R","U","E">>, <<>>),
          FlagRow(<<>>, <<>>, 1, 10, <<"T","R","U","E">>, <<>>),
          FlagRow(<<" ">>, <<>>, 1, 2, <<"T","R","U","E">>, <<>>),
          <<<<"A","z","u","l">>, <<"T","R","U","E">>>>}

\* Rows of a tracker in the spreadsheet: the same, the text TRUE among them.
XlsxTrackerRows ==
    {FlagRow(<<"P","a","c","h","i"," ","P","i","z","z","a">>, PyFalse, 1, k,
             PyTrue, IF k % 2 = 0 THEN PyFalse ELSE <<"n","a">>) : k \in 0..10}
    \cup {FlagRow(<<"P","A","C","H","I"," "," ","P","I","Z","Z","A">>, PyTrue, 8, k, PyTrue, None) : k \in {0, 3}}
    \cup {FlagRow(<<"A","z","u","l">>, PyTrue, 1, 10, PyTrue, None),
          FlagRow(<<"A","z","u","l">>, PyFalse, 1, 4, <<"T","R","U","E">>, None),
          FlagRow(<<"S","U","M"," ">>, None, 1, 10, PyTrue, None),
          FlagRow(None, None, 1, 10, PyTrue, None),
          FlagRow(<<" ">>, None, 1, 2, PyTrue, None)}

MaxTrackerRows == 2

\* load_scorecard is entered with the data rows of one tracker; the
\* command-line front end reads spreadsheets only.
TrackerInit ==
    /\ frontend \in Frontends
    /\ pc = "load_scorecard"
    /\ encoding \in (IF frontend = "web" THEN {"csv", "xlsx"} ELSE {"xlsx"})
    /\ trows \in SeqsUpTo(IF encoding = "csv" THEN CsvTrackerRows ELSE XlsxTrackerRows,
                          MaxTrackerRows)
    /\ ti = 0
    /\ restaurants = EmptyDict
    /\ orders = <<>>
    /\ OrdersIdle /\ WeekIdle /\ MapIdle /\ CountIdle /\ FnIdle /\ GenIdle

TrackerNext == LoadTrackerRow \/ LoadTrackerReturn

SpecTracker == TrackerInit /\ [][TrackerNext]_vars

(***************************************************************************)
(* determine_week                                                          *)
(***************************************************************************)
\* ((ws.day - 1) // 7) + 1
week_of_month(ws) == ((DayOf(ws.ord) - 1) \div 7) + 1

\* The tuple determine_week returns when the order list is empty.
determine_week_empty(current) ==
    [start |-> get_week_sunday(current),
     month |-> MONTH_NAMES[MonthOf(current.ord)],
     year  |-> YearOf(current.ord),
     num   |-> week_of_month(get_week_sunday(current))]

\* week_counts[ws] += 1 on the defaultdict(int), which keeps insertion order
week_counts_incr(wc, ws) ==
    IF \E i \in 1..Len(wc) : wc[i].ws = ws
    THEN [i \in 1..Len(wc) |-> IF wc[i].ws = ws THEN [wc[i] EXCEPT !.n = @ + 1]
                               ELSE wc[i]]
    ELSE Append(wc, [ws |-> ws, n |-> 1])

\* max(week_counts, key=week_counts.get) taking the first key inserted.
max_week_first(wc) == wc[1].ws

\* max(week_counts, key=week_counts.get): the first key, in insertion
\* order, whose count no other key exceeds
max_week(wc) ==
    wc[CHOOSE i \in 1..Len(wc) :
           /\ \A j \in 1..Len(wc) : wc[j].n <= wc[i].n
           /\ \A j \in 1..(i - 1) : wc[j].n < wc[i].n].ws

\* The tuple determine_week returns for the week start selected.
determine_week_of(week_start) ==
    [start |-> week_start,
     month |-> MONTH_NAMES[MonthOf(week_start.ord)],
     year  |-> YearOf(week_start.ord),
     num   |-> week_of_month(week_start)]

\* Instants datetime.now() may return: days whose week starts in the same
\* month, in the month before, and in the year before.
NowUniverse ==
    { DateTime(2026, 2, 21, 23, 57), DateTime(2026, 11, 29, 0, 0),
      DateTime(2026, 12, 2, 9, 30),  DateTime(2027, 1, 1, 12, 0) }

\* "if not orders": the fallback to the current instant.
WeekFallback ==
    /\ pc = "week"
    /\ orders = <<>>
    /\ now' \in NowUniverse
    /\ week' = determine_week_empty(now')
    /\ pc' = "week_done"
    /\ UNCHANGED <<fnVars, genVars, frontend, orders, week_counts, wi, ordersVars,
                   trackerVars, mapVars, countVars>>

\* One iteration of "for o in orders".
WeekCount ==
    /\ pc = "week"
    /\ wi < Len(orders)
    /\ week_counts' = week_counts_incr(week_counts, get_week_sunday(orders[wi + 1].date))
    /\ wi' = wi + 1
    /\ UNCHANGED <<fnVars, genVars, frontend, pc, orders, now, week, ordersVars, trackerVars,
                   mapVars, countVars>>

\* The selection of the week and the return.
WeekSelect ==
    /\ pc = "week"
    /\ orders # <<>>
    /\ wi = Len(orders)
    /\ week' = determine_week_of(max_week(week_counts))
    /\ pc' = "week_done"
    /\ UNCHANGED <<fnVars, genVars, frontend, orders, now, week_counts, wi, ordersVars,
                   trackerVars, mapVars, countVars>>

\* An order as load_orders builds it.
Order(place, date) == [place |-> place, date |-> date, norm |-> normalize(place)]

\* Instants around two week boundaries, one of them inside a month, one at
\* the turn of a month, and around the turn of a year.
DateUniverse ==
    { DateTime(2026, 2, 21, 23, 57),  DateTime(2026, 2, 22, 0, 0),
      DateTime(2026, 11, 29, 0, 0),   DateTime(2026, 12, 2, 9, 30),
      DateTime(2026, 12, 5, 23, 59),  DateTime(2027, 1, 1, 12, 0) }

MaxWeekOrders == 3

\* determine_week is entered with a list of orders, at some instant.
WeekInit ==
    /\ frontend \in Frontends
    /\ pc = "week"
    /\ orders \in SeqsUpTo({Order(<<"A">>, d) : d \in DateUniverse}, MaxWeekOrders)
    /\ now = NoDate
    /\ week_counts = <<>>
    /\ wi = 0
    /\ week = NoWeek
    /\ OrdersIdle /\ TrackerIdle /\ MapIdle /\ CountIdle /\ FnIdle /\ GenIdle

WeekNext == WeekFallback \/ WeekCount \/ WeekSelect

SpecWeek == WeekInit /\ [][WeekNext]_vars

(***************************************************************************)
(* count_orders_by_day                                                     *)
(***************************************************************************)
\* InWeek with the upper end of the week left open.
InWeek_NoEnd(date, week_start) == ~DtLess(date, week_start)

\* not (date < week_start or date >= week_end), week_end = week_start + 7 days
InWeek(date, week_start) ==
    ~(DtLess(date, week_start) \/ ~DtLess(date, PlusDays(week_start, 7)))

\* name_map.get(norm)
DictGet(d, k) == IF k \in DOMAIN d THEN d[k] ELSE None

\* "if sc_name": None and the empty string are false
Truthy(x) == x # None /\ x # <<>>

\* counts[sc_name][dow] += 1 on the defaultdict(lambda: [0] * 7)
counts_incr(c, sc_name, dow) ==
    LET old == IF sc_name \in DOMAIN c THEN c[sc_name] ELSE [i \in 1..7 |-> 0]
    IN  Put(c, sc_name, [old EXCEPT ![dow + 1] = @ + 1])

\* counts after the loop body has run for the order o
counts_after(c, o, name_map, week_start) ==
    IF ~InWeek(o.date, week_start) THEN c
    ELSE IF Truthy(DictGet(name_map, o.norm))
         THEN counts_incr(c, DictGet(name_map, o.norm), day_of_week_sunday_start(o.date))
         ELSE c

\* One iteration of "for o in orders".
CountStep ==
    /\ pc = "count"
    /\ ci < Len(orders)
    /\ counts' = counts_after(counts, orders[ci + 1], mapping, week.start)
    /\ ci' = ci + 1
    /\ UNCHANGED <<fnVars, genVars, frontend, pc, orders, ordersVars, trackerVars, weekVars, mapVars>>

\* "return counts"
CountReturn ==
    /\ pc = "count"
    /\ ci = Len(orders)
    /\ pc' = "count_done"
    /\ UNCHANGED <<fnVars, genVars, frontend, orders, ordersVars, trackerVars, weekVars, mapVars,
                   countVars>>

\* The same set as a sequence, in one order.
RECURSIVE SetToSeq(_)
SetToSeq(S) ==
    IF S = {} THEN <<>>
    ELSE LET x == CHOOSE x \in S : \A y \in S : x = y \/ StrLess(x, y)
         IN  <<x>> \o SetToSeq(S \ {x})

\* set(o["norm"] for o in orders)
OrderNorms(os) == {os[i].norm : i \in 1..Len(os)}

\* Place names of the orders counted, one of them without any ASCII character.
CountPlaces == { <<"A">>, <<"A", "b">>, <<"U+1F355">> }

\* Tracker keys the name map of the orders counted is built against.
CountTrackerUniverse == { <<>>, <<"a">>, <<"a", "a", "b">> }

\* Instants around the week that starts on Sunday 29 November 2026.
CountDates ==
    { DateTime(2026, 11, 28, 23, 59), DateTime(2026, 11, 29, 0, 0),
      DateTime(2026, 12, 5, 23, 59),  DateTime(2026, 12, 6, 0, 0) }

\* The weeks of those instants, as determine_week returns them.
CountWeeks == {determine_week_of(get_week_sunday(d)) : d \in CountDates}

MaxCountOrders == 2

MaxCountTrackerKeys == 2

\* count_orders_by_day is entered with a list of orders, a name map that
\* build_name_map has built for their keys, and the Sunday of a week.
CountInit ==
    /\ frontend \in Frontends
    /\ pc = "count"
    /\ orders \in SeqsUpTo({Order(p, d) : p \in CountPlaces, d \in CountDates},
                           MaxCountOrders)
    /\ \E sc \in DistinctSeqs(CountTrackerUniverse, MaxCountTrackerKeys) :
          mapping = build_name_map(frontend, SetToSeq(OrderNorms(orders)), sc)
    /\ order_norms = <<>> /\ scorecard_norms = <<>> /\ mi = 0
    /\ week \in CountWeeks
    /\ now = NoDate /\ week_counts = <<>> /\ wi = 0
    /\ ci = 0
    /\ counts = EmptyDict
    /\ OrdersIdle /\ TrackerIdle /\ FnIdle /\ GenIdle

CountNext == CountStep \/ CountReturn

SpecCount == CountInit /\ [][CountNext]_vars

(***************************************************************************)
(* The run: the "Generate Scorecards" flow of app.py and main() of          *)
(* generate_scorecards.py.                                                 *)
(***************************************************************************)
\* The orderings of a set: the orders in which Python may iterate it.
Perms(S) == {q \in DistinctSeqs(S, Cardinality(S)) : Len(q) = Cardinality(S)}

\* "scorecard = load_scorecard(...)" is reached when load_orders has returned.
CallLoadScorecard ==
    /\ pc = "orders_done"
    /\ pc' = "load_scorecard"
    /\ UNCHANGED <<fnVars, genVars, frontend, orders, ordersVars, trackerVars, weekVars, mapVars,
                   countVars>>

\* "week_start, month_name, year, week_num = determine_week(orders)"
CallDetermineWeek ==
    /\ pc = "tracker_done"
    /\ pc' = "week"
    /\ week_counts' = <<>>
    /\ wi' = 0
    /\ UNCHANGED <<fnVars, genVars, frontend, orders, now, week, ordersVars, trackerVars, mapVars,
                   countVars>>

\* "order_norms = set(o["norm"] for o in orders)" and the call
\* "build_name_map(order_norms, set(scorecard.keys()))"
CallBuildNameMap ==
    /\ pc = "week_done"
    /\ pc' = "map"
    /\ order_norms' \in Perms(OrderNorms(orders))
    /\ scorecard_norms' \in Perms(DOMAIN restaurants)
    /\ mi' = 0
    /\ mapping' = EmptyDict
    /\ UNCHANGED <<fnVars, genVars, frontend, orders, ordersVars, trackerVars, weekVars, countVars>>

\* "daily_counts = count_orders_by_day(orders, name_map, week_start)": the
\* name map is kept, the orders in which build_name_map iterated the two
\* sets are gone with its frame.
CallCount ==
    /\ pc = "map_done"
    /\ pc' = "count"
    /\ ci' = 0
    /\ counts' = EmptyDict
    /\ order_norms' = <<>>
    /\ scorecard_norms' = <<>>
    /\ mi' = 0
    /\ UNCHANGED <<fnVars, genVars, frontend, orders, ordersVars, trackerVars, weekVars,
                   mapping>>

\* A complete row of the order log.
OrderRow(place, status, date) == [Place |-> place, Status |-> status, Date |-> date]

PizzaPachiRow ==
    OrderRow(<<"P","i","z","z","a"," ","P","a","c","h","i">>, <<"D","e","l","i","v","e","r","e","d">>,
             <<"3","0"," ","N","o","v"," ","2","0","2","6"," ","1","1",":","5","7"," ","a","m">>)

PachiPizzaAndPastaRow ==
    OrderRow(<<"P","A","C","H","I"," ","P","I","Z","Z","A"," ","A","N","D"," ","P","A","S","T","A">>, <<"D","e","l","i","v","e","r","e","d">>,
             <<"3","0"," ","N","o","v"," ","2","0","2","6"," ","1",":","0","5"," ","p","m">>)

\* The order log the runs take their rows from: an order of Saturday
\* 28 November 2026 under the tracker's own name, the two spellings on
\* Monday 30 November, an order for "Azul" on the Tuesday, a cancelled
\* order, and a row too short for the Status and Date columns.
RunOrderLog ==
    << OrderRow(<<"P","a","c","h","i"," ","P","i","z","z","a">>, <<"D","e","l","i","v","e","r","e","d">>,
                <<"2","8"," ","N","o","v"," ","2","0","2","6"," ","9",":","3","0"," ","p","m">>),
       PizzaPachiRow, PachiPizzaAndPastaRow, PizzaPachiRow,
       OrderRow(<<"A","z","u","l">>, <<"D","e","l","i","v","e","r","e","d">>,
                <<"1"," ","D","e","c"," ","2","0","2","6"," ","8",":","1","5"," ","p","m">>),
       OrderRow(<<"Z","e","d">>, <<"C","a","n","c","e","l","l","e","d">>,
                <<"3","0"," ","N","o","v"," ","2","0","2","6"," ","1","1",":","5","7"," ","a","m">>),
       OrderRow(<<"A","z","u","l">>, None, None) >>

\* The rows of a log that a set of row numbers selects, in the log's order.
RECURSIVE SelectRows(_, _)
SelectRows(log, I) ==
    IF I = {} THEN <<>>
    ELSE LET i == CHOOSE i \in I : \A k \in I : i <= k
         IN  <<log[i]>> \o SelectRows(log, I \ {i})

\* The order logs of the runs: the selections of at most n rows.
RunOrderRows(n) ==
    {SelectRows(RunOrderLog, I) : I \in {J \in SUBSET (1..Len(RunOrderLog)) : Cardinality(J) <= n}}

\* The tracker row of "Pachi Pizza" with four true flags among the ten
\* scored columns, the Monday story flag among them, in each encoding.
PachiPizzaCsvRow ==
    <<<<"P","a","c","h","i"," ","P","i","z","z","a">>, <<"F","A","L","S","E">>, <<"T","R","U","E">>, <<"T","R","U","E">>, <<"T","R","U","E">>, <<"F","A","L","S","E">>, <<"T","R","U","E">>,
      <<"F","A","L","S","E">>, <<"N","A">>, <<>>, <<"F","A","L","S","E">>, <<"F","A","L","S","E">>>>

PachiPizzaXlsxRow ==
    <<<<"P","a","c","h","i"," ","P","i","z","z","a">>, PyFalse, PyTrue, PyTrue, PyTrue, PyFalse, PyTrue, PyFalse,
      <<"N","A">>, None, PyFalse, PyFalse>>

\* The trackers of the runs, by encoding: the one record of "Pachi Pizza";
\* three records, one name with a small initial; and a sheet with a number
\* in a name cell.
RunTrackers(enc) ==
    IF enc = "csv"
    THEN { <<PachiPizzaCsvRow>>,
           <<FlagRow(<<"a","z","u","l">>, <<"T","R","U","E">>, 1, 10, <<"T","R","U","E">>, <<>>),
             FlagRow(<<"Z","e","d">>, <<>>, 1, 0, <<"T","R","U","E">>, <<"N","A">>),
             PachiPizzaCsvRow>> }
    ELSE { <<PachiPizzaXlsxRow>>,
           <<FlagRow(<<"a","z","u","l">>, PyTrue, 1, 10, PyTrue, None),
             FlagRow(<<"Z","e","d">>, None, 1, 0, PyTrue, <<"N","A">>),
             PachiPizzaXlsxRow>>,
           <<PachiPizzaXlsxRow, FlagRow(PyInt, None, 1, 10, PyTrue, None)>> }

\* An active test that asks for a matched name only.
ActiveMatched(k, name_map, daily_counts) == k \in Values(name_map)

\* The web front end's test of a restaurant with orders in the week.
ActiveWeb(k, name_map, daily_counts) ==
    /\ k \in Values(name_map)
    /\ SumSeq(IF k \in DOMAIN daily_counts THEN daily_counts[k] ELSE <<0>>) > 0

\* The command-line front end's test.
ActiveCli(k, name_map, daily_counts) == k \in DOMAIN daily_counts

\* The sort key of a tracker record: (0 if active else 1, display name).
SortKey(fe, k, scorecard, name_map, daily_counts) ==
    [rank |-> IF (IF fe = "web" THEN ActiveWeb(k, name_map, daily_counts)
                  ELSE ActiveCli(k, name_map, daily_counts)) THEN 0 ELSE 1,
     display_name |-> scorecard[k].display_name]

\* A key order that leaves the active restaurants where the names put them.
SortKeyLess_NameOnly(a, b) == StrLess(a.display_name, b.display_name)

\* a < b on sort keys, as Python compares tuples
SortKeyLess(a, b) ==
    \/ a.rank < b.rank
    \/ a.rank = b.rank /\ StrLess(a.display_name, b.display_name)

\* The results sorted(scorecard.items(), key=...) may give, as sequences of
\* tracker keys: no key of a later item is less than that of an earlier
\* one.  Items of equal keys keep the dict's order, which is not modelled,
\* so every order of theirs is a result.
sorted_items(fe, scorecard, name_map, daily_counts) ==
    {q \in Perms(DOMAIN scorecard) :
        \A i \in 1..Len(q) : \A j \in (i + 1)..Len(q) :
            ~SortKeyLess(SortKey(fe, q[j], scorecard, name_map, daily_counts),
                         SortKey(fe, q[i], scorecard, name_map, daily_counts))}

\* "sorted_restaurants = sorted(...)"; the generation loop comes next.
SortRestaurants ==
    /\ pc = "count_done"
    /\ sorted_restaurants' \in sorted_items(frontend, restaurants, mapping, counts)
    /\ pc' = "generate"
    /\ UNCHANGED <<fnVars, frontend, orders, ordersVars, trackerVars, weekVars,
                   mapVars, countVars, gi, html_files, png_files, zip_written,
                   reported>>

\* daily_counts.get(norm_name, [0] * 7)
orders_per_day(k, daily_counts) ==
    IF k \in DOMAIN daily_counts THEN daily_counts[k] ELSE [d \in 1..7 |-> 0]

\* One iteration of the generation loop: the HTML file is written, then
\* html_to_png renders the PNG or fails, returning False.
GenerateOne ==
    /\ pc = "generate"
    /\ gi < Len(sorted_restaurants)
    /\ LET norm_name == sorted_restaurants[gi + 1]
       IN  /\ html_files' = Append(html_files,
                                    [key |-> norm_name,
                                     orders_per_day |-> orders_per_day(norm_name, counts)])
           /\ \E rendered \in BOOLEAN :
                 png_files' = IF rendered THEN png_files \cup {norm_name} ELSE png_files
    /\ gi' = gi + 1
    /\ UNCHANGED <<fnVars, frontend, pc, orders, ordersVars, trackerVars, weekVars,
                   mapVars, countVars, sorted_restaurants, zip_written, reported>>

\* The loop is over: the web front end writes the archive of the PNG files,
\* the command-line front end prints the number of scorecards.
GenerateDone ==
    /\ pc = "generate"
    /\ gi = Len(sorted_restaurants)
    /\ zip_written' = (frontend = "web")
    /\ pc' = "done"
    /\ UNCHANGED <<fnVars, frontend, orders, ordersVars, trackerVars, weekVars,
                   mapVars, countVars, sorted_restaurants, gi, html_files, png_files,
                   reported>>

\* An except clause that reports the error and lets the run go on.
RunFails_GoesOn ==
    /\ pc \in {"orders_raised", "tracker_raised"}
    /\ reported' = <<"AttributeError">>
    /\ pc' = "generate"
    /\ UNCHANGED <<fnVars, frontend, orders, ordersVars, trackerVars, weekVars,
                   mapVars, countVars, sorted_restaurants, gi, html_files, png_files,
                   zip_written>>

\* An exception of load_orders or load_scorecard: the web front end shows
\* it with st.error and stops the script; in the command-line front end it
\* leaves main() and the interpreter prints it and exits.
RunFails ==
    /\ pc \in {"orders_raised", "tracker_raised"}
    /\ reported' = <<"AttributeError">>
    /\ pc' = "stopped"
    /\ UNCHANGED <<fnVars, frontend, orders, ordersVars, trackerVars, weekVars,
                   mapVars, countVars, sorted_restaurants, gi, html_files, png_files,
                   zip_written>>

MaxRunRows == 3

\* A run starts with the rows of an order log and of a tracker.
Init ==
    /\ frontend \in Frontends
    /\ pc = "load_orders"
    /\ rows \in RunOrderRows(MaxRunRows)
    /\ ri = 0
    /\ orders = <<>>
    /\ encoding \in (IF frontend = "web" THEN {"csv", "xlsx"} ELSE {"xlsx"})
    /\ trows \in RunTrackers(encoding)
    /\ ti = 0
    /\ restaurants = EmptyDict
    /\ WeekIdle /\ MapIdle /\ CountIdle /\ FnIdle /\ GenIdle

Next ==
    \/ LoadOrdersRow \/ LoadOrdersReturn \/ CallLoadScorecard
    \/ LoadTrackerRow \/ LoadTrackerReturn \/ CallDetermineWeek
    \/ WeekFallback \/ WeekCount \/ WeekSelect \/ CallBuildNameMap
    \/ MapStep \/ MapReturn \/ CallCount
    \/ CountStep \/ CountReturn
    \/ SortRestaurants \/ GenerateOne \/ GenerateDone \/ RunFails

Spec == Init /\ [][Next]_vars

\* The position of the run: every step moves pc or a loop's counter.
position == <<pc, ri, ti, wi, mi, ci, gi>>

\* The run has come to its end, or has stopped on an error: no step is left.
Terminated == pc \in {"done", "stopped"}

\* The run is never left waiting: as long as it has not terminated it goes
\* on to take steps (weak fairness of Next, Terminated being the states
\* without a step).
LiveSpec == Spec /\ ([]<>Terminated \/ []<><<TRUE>>_position)

(***************************************************************************)
(* normalize and get_week_sunday, each called on its own                   *)
(***************************************************************************)
\* key = normalize(name), then normalize of the key returned
CallNormalize ==
    /\ pc = "normalize"
    /\ key' = Append(key, normalize(IF key = <<>> THEN name_in ELSE key[Len(key)]))
    /\ pc' = IF Len(key') = 2 THEN "normalize_done" ELSE "normalize"
    /\ UNCHANGED <<genVars, frontend, name_in, dt_in, sunday, orders, ordersVars,
                   trackerVars, weekVars, mapVars, countVars>>

\* The characters of the names: a capital, a small letter, the ampersand,
\* two kinds of whitespace, an accented letter and an emoji.
NameChars == {"A", "b", "&", " ", "\t", "U+00E9", "U+1F355"}

\* The display name "Café – Déjà Vu 🍕", its accented letters precomposed.
CafeDejaVu ==
    <<"C", "a", "f", "U+00E9", " ", "U+2013", " ", "D", "U+00E9", "j", "U+00E0", " ", "V", "u", " ", "U+1F355">>

MaxNameLen == 4

NormalizeInit ==
    /\ frontend \in Frontends
    /\ pc = "normalize"
    /\ name_in \in SeqsUpTo(NameChars, MaxNameLen) \cup {None, CafeDejaVu}
    /\ key = <<>> /\ dt_in = NoDate /\ sunday = NoDate
    /\ orders = <<>>
    /\ OrdersIdle /\ TrackerIdle /\ WeekIdle /\ MapIdle /\ CountIdle /\ GenIdle

NormalizeNext == CallNormalize

SpecNormalize == NormalizeInit /\ [][NormalizeNext]_vars

\* sunday = get_week_sunday(dt)
CallGetWeekSunday ==
    /\ pc = "get_week_sunday"
    /\ sunday' = get_week_sunday(dt_in)
    /\ pc' = "get_week_sunday_done"
    /\ UNCHANGED <<genVars, frontend, name_in, key, dt_in, orders, ordersVars,
                   trackerVars, weekVars, mapVars, countVars>>

\* The minutes of the day of the timestamps: midnight, the minute after,
\* 11:59 am and 11:59 pm.
MinutesOfDay == {0, 1, 719, 1439}

\* The timestamps lie in MaxDays consecutive days from 20 December 2027 on:
\* across the turn of the year and the leap day of 2028.
MaxDays == 80

WeekSundayInit ==
    /\ frontend \in Frontends
    /\ pc = "get_week_sunday"
    /\ \E n \in 0..(MaxDays - 1) : \E mn \in MinutesOfDay :
          dt_in = [ord |-> ymd2ord(2027, 12, 20) + n, min |-> mn]
    /\ name_in = <<>> /\ key = <<>> /\ sunday = NoDate
    /\ orders = <<>>
    /\ OrdersIdle /\ TrackerIdle /\ WeekIdle /\ MapIdle /\ CountIdle /\ GenIdle

WeekSundayNext == CallGetWeekSunday

SpecWeekSunday == WeekSundayInit /\ [][WeekSundayNext]_vars

\* The tracker keys, as a set.
TrackerKeys == Range(scorecard_norms)

\* t contains k or k contains t
Related(k, t) == IsSubstr(k, t) \/ IsSubstr(t, k)

\* C1: when build_name_map has returned, every order key that is itself a
\* tracker key is mapped to itself, whatever other tracker keys contain it
\* or are contained in it and wherever they come in the iteration order.
C1_ExactMatchFirst ==
    pc = "map_done" =>
        \A k \in Range(order_norms) :
            k \in TrackerKeys => k \in DOMAIN mapping /\ mapping[k] = k

\* An order key equal to a tracker key was mapped to itself although another
\* tracker key, related to it by containment, came first in the iteration.
C1_Witness ==
    /\ pc = "map_done"
    /\ \E k \in Range(order_norms) :
        /\ k \in TrackerKeys
        /\ scorecard_norms[1] # k
        /\ Related(k, scorecard_norms[1])
        /\ k \in DOMAIN mapping /\ mapping[k] = k

\* C2 as stated: an order key that is no tracker key and is a substring of
\* exactly one tracker key t is mapped to t, whatever else the tracker key
\* set holds.
C2_SubstringOfOne ==
    pc = "map_done" =>
        \A k \in Range(order_norms) : \A t \in TrackerKeys :
            (k \notin TrackerKeys /\ {u \in TrackerKeys : IsSubstr(k, u)} = {t})
                => k \in DOMAIN mapping /\ mapping[k] = t

\* The cases of C2 in which the code decides by containment in t alone.
C2_Case(k, t) ==
    /\ k \notin TrackerKeys
    /\ {u \in TrackerKeys : IsSubstr(k, u)} = {t}
    /\ \A u \in TrackerKeys : ~IsSubstr(u, k)
    /\ frontend = "cli" =>
          ~(InManual(k) /\ Manual(k) \in TrackerKeys /\ Manual(k) # t)

\* C2, amended: an order key that is no tracker key, is a substring of
\* exactly one tracker key t, contains no tracker key as a substring and, in
\* the command-line front end, has no MANUAL_NAME_MAP entry naming another
\* tracker key, is mapped to t, for every iteration order.
C2_SubstringOfOneOnly ==
    pc = "map_done" =>
        \A k \in Range(order_norms) : \A t \in TrackerKeys :
            C2_Case(k, t) => k \in DOMAIN mapping /\ mapping[k] = t

\* Such an order key was mapped to the one tracker key containing it, which
\* was not the first tracker key of the iteration.
C2_Witness ==
    /\ pc = "map_done"
    /\ \E k \in Range(order_norms) : \E t \in TrackerKeys :
        /\ C2_Case(k, t)
        /\ k # <<>>
        /\ scorecard_norms[1] # t
        /\ k \in DOMAIN mapping /\ mapping[k] = t

\* The sum of all cells of a DailyCounts mapping.
RECURSIVE SumCells(_)
SumCells(c) ==
    IF DOMAIN c = {} THEN 0
    ELSE LET k == CHOOSE k \in DOMAIN c : TRUE
         IN  SumSeq(c[k]) + SumCells([x \in (DOMAIN c) \ {k} |-> c[x]])

\* The order's timestamp lies in [week.start, week.start + 7 days).
InWindow(o) ==
    /\ week.start.ord <= o.date.ord
    /\ o.date.ord < week.start.ord + 7

\* C3: when count_orders_by_day has returned, the sum over all DailyCounts
\* cells equals the number of orders in the week's window whose key has an
\* entry in name_map, the empty tracker key included.
C3_EveryMatchedOrderCounted ==
    pc = "count_done" =>
        SumCells(counts) =
            Cardinality({i \in 1..Len(orders) :
                            InWindow(orders[i]) /\ orders[i].norm \in DOMAIN mapping})

\* C4: an iteration of count_orders_by_day over an order dated outside the
\* week's window, or whose key has no entry in name_map, leaves every cell
\* of DailyCounts as it was.
C4_SkippedOrderChangesNothing ==
    [][(/\ pc = "count"
        /\ ci < Len(orders)
        /\ ci' = ci + 1
        /\ (~InWindow(orders[ci + 1]) \/ orders[ci + 1].norm \notin DOMAIN mapping))
       => counts' = counts]_vars

\* The run counted an order, and skipped an order dated outside the window
\* although name_map maps its key to a tracker key.
C4_Witness ==
    /\ pc = "count_done"
    /\ counts # EmptyDict
    /\ \E i \in 1..Len(orders) :
        /\ ~InWindow(orders[i])
        /\ orders[i].norm \in DOMAIN mapping
        /\ mapping[orders[i].norm] \in DOMAIN counts
    /\ SumCells(counts) < Len(orders)

\* The number of orders dated in the seven days that start at the instant s.
OrdersInSpan(s) ==
    Cardinality({i \in 1..Len(orders) :
                    s.ord <= orders[i].date.ord /\ orders[i].date.ord < s.ord + 7})

\* C9: on a non-empty order list determine_week returns a Sunday at
\* midnight, and no seven-day span starting on a Sunday holds more orders
\* than the span starting at it; when all orders lie in one such span, that
\* span's Sunday is returned, in whatever order the list holds them.
C9_BusiestWeek ==
    (pc = "week_done" /\ orders # <<>>) =>
        /\ weekday(week.start) = 6
        /\ week.start.min = 0
        /\ OrdersInSpan(week.start) >= 1
        /\ \A i \in 1..Len(orders) : \A k \in 0..6 :
              LET s == PlusDays(orders[i].date, 0 - k)
              IN  weekday(s) = 6 => OrdersInSpan(s) <= OrdersInSpan(week.start)

\* The week returned holds more orders than the week of the first order.
C9_Witness ==
    /\ pc = "week_done"
    /\ Len(orders) >= 3
    /\ ~InWindow(orders[1])
    /\ OrdersInSpan(week.start) >= 2

\* C10: whenever determine_week has returned, the month name, the year and
\* the week of the month are those of the week-start Sunday returned.
C10_DerivedFromSunday ==
    pc = "week_done" =>
        /\ week.month = MONTH_NAMES[MonthOf(week.start.ord)]
        /\ week.year = YearOf(week.start.ord)
        /\ week.num = ((DayOf(week.start.ord) - 1) \div 7) + 1

\* The row has its three fields, a place, and a date that parses.
RowComplete(row) ==
    /\ \A c \in {"Place", "Status", "Date"} : c \in DOMAIN row /\ row[c] # None
    /\ Strip(row["Place"]) # <<>>
    /\ parse_date(row["Date"]) # NoDate

\* C5: load_orders never raises, and when it has returned, no order comes
\* from a row that lacks a field or whose date does not parse: there are at
\* most as many orders as complete rows.
C5_MalformedRowsDropped ==
    /\ pc # "orders_raised"
    /\ pc = "orders_done" =>
          Len(orders) <= Cardinality({i \in 1..Len(rows) : RowComplete(rows[i])})

\* The number of flags valued true among the given flags.
TrueAmong(flags) == Cardinality({i \in 1..Len(flags) : flags[i] = "True"})

\* The three link flags and seven story flags of the scored columns.
ScoredFlags(r) == <<r.ig, r.fb, r.google>> \o r.stories

\* All four link flags and the seven story flags.
AllFlags(r) == <<r.tip_tag>> \o ScoredFlags(r)

\* C6 as stated: the score of every record is round(100 * T / 10), T the
\* number of true flags among all four link flags and the seven story flags.
C6_ScoreOfElevenFlags ==
    \A k \in DOMAIN restaurants :
        10 * restaurants[k].score = 100 * TrueAmong(AllFlags(restaurants[k]))

\* C6, amended: the score of every record is round(100 * T / 10), T the
\* number of true flags among the Instagram, Facebook and Google flags and
\* the seven story flags; the tip-and-tag flag does not count.
C6_ScoreOfTenFlags ==
    \A k \in DOMAIN restaurants :
        10 * restaurants[k].score = 100 * TrueAmong(ScoredFlags(restaurants[k]))

\* A record whose tip-and-tag flag is true and whose score counts the
\* other flags only.
C6_Witness ==
    \E k \in DOMAIN restaurants :
        /\ restaurants[k].tip_tag = "True"
        /\ TrueAmong(ScoredFlags(restaurants[k])) = 3
        /\ restaurants[k].score = 30

\* C7: every record with exactly k true flags among its ten scored columns
\* has the score 10 * k, in both encodings and both front ends, and the two
\* front ends' formulas agree on k.
C7_ScoreIsTenTimesCount ==
    \A n \in DOMAIN restaurants :
        LET k == TrueAmong(ScoredFlags(restaurants[n]))
        IN  /\ restaurants[n].score = 10 * k
            /\ score_web(k) = 10 * k
            /\ score_cli(k) = 10 * k

\* Records with exactly five true flags and the score 50 were built by the
\* web front end from the delimited text.
C7_Witness ==
    /\ frontend = "web" /\ encoding = "csv"
    /\ \E n \in DOMAIN restaurants :
        /\ TrueAmong(ScoredFlags(restaurants[n])) = 5
        /\ restaurants[n].score = 50

PachiPizzaKey == <<"p","a","c","h","i"," ","p","i","z","z","a">>

PizzaPachiKey == <<"p","i","z","z","a"," ","p","a","c","h","i">>

PachiPizzaAndPastaKey == <<"p","a","c","h","i"," ","p","i","z","z","a"," ","a","n","d"," ","p","a","s","t","a">>

\* The scenario of C8: two orders for "Pizza Pachi" and one for "PACHI PIZZA
\* AND PASTA", all on Monday 30 November 2026, in any order; the tracker
\* holds the one record "Pachi Pizza" with four true scored flags; and the
\* run has computed the daily counts.
C8_Scenario ==
    /\ pc = "count_done"
    /\ Len(rows) = 3
    /\ Cardinality({i \in 1..3 : rows[i] = PizzaPachiRow}) = 2
    /\ Cardinality({i \in 1..3 : rows[i] = PachiPizzaAndPastaRow}) = 1
    /\ trows \in {<<PachiPizzaCsvRow>>, <<PachiPizzaXlsxRow>>}

\* C8 as stated: in the scenario both order keys are mapped to "pachi
\* pizza", DailyCounts is {"pachi pizza": [0,3,0,0,0,0,0]}, the score is 40.
C8_BothSpellingsMatched ==
    C8_Scenario =>
        /\ mapping = [k \in {PizzaPachiKey, PachiPizzaAndPastaKey} |-> PachiPizzaKey]
        /\ counts = [k \in {PachiPizzaKey} |-> <<0, 3, 0, 0, 0, 0, 0>>]
        /\ restaurants[PachiPizzaKey].score = 40

\* C8, amended: in the scenario only "pachi pizza and pasta" is mapped to
\* "pachi pizza"; "pizza pachi" has no entry in the map (it neither contains
\* nor is contained in "pachi pizza", and their similarity is 10/22, below
\* 0.6); DailyCounts is {"pachi pizza": [0,1,0,0,0,0,0]}; the score is 40.
C8_OneSpellingMatched ==
    C8_Scenario =>
        /\ mapping = [k \in {PachiPizzaAndPastaKey} |-> PachiPizzaKey]
        /\ counts = [k \in {PachiPizzaKey} |-> <<0, 1, 0, 0, 0, 0, 0>>]
        /\ restaurants[PachiPizzaKey].score = 40

\* The scenario has run in the web front end, the week being that of
\* Sunday 29 November 2026, and one order was counted on Monday.
C8_Witness ==
    /\ C8_Scenario
    /\ frontend = "web"
    /\ week.start = DateTime(2026, 11, 29, 0, 0)
    /\ PachiPizzaKey \in DOMAIN counts /\ counts[PachiPizzaKey][2] = 1

\* The day of the week of a timestamp, counted in days from a Sunday of the
\* calendar, 29 November 2026, the timestamp's day not before it.
DaysFromSunday(d) == (d.ord - ymd2ord(2026, 11, 29)) % 7

\* C11: for every timestamp t, dow(t) is 0 on a Sunday, 1 on a Monday, ...,
\* 6 on a Saturday, and the week start get_week_sunday(t) is a Sunday at
\* midnight with start <= t < start + 7 days and dow(t) whole days before t.
C11_WeekStartIsSunday ==
    pc = "get_week_sunday_done" =>
        /\ day_of_week_sunday_start(dt_in) = DaysFromSunday(dt_in)
        /\ DaysFromSunday(sunday) = 0
        /\ sunday.min = 0
        /\ ~DtLess(dt_in, sunday)
        /\ DtLess(dt_in, PlusDays(sunday, 7))
        /\ dt_in.ord - sunday.ord = day_of_week_sunday_start(dt_in)

\* The week start of a Saturday at 11:59 pm in January 2028 lies six days
\* before it, in December 2027.
C11_Witness ==
    /\ pc = "get_week_sunday_done"
    /\ day_of_week_sunday_start(dt_in) = 6
    /\ dt_in.min = 1439
    /\ YearOf(dt_in.ord) = 2028 /\ YearOf(sunday.ord) = 2027
    /\ sunday = [ord |-> dt_in.ord - 6, min |-> 0]

\* C14: normalize is idempotent: normalize(normalize(n)) = normalize(n) for
\* every name n, the empty, the whitespace-only and the non-ASCII-only name
\* and names with "&" among them.
C14_NormalizeIdempotent ==
    pc = "normalize_done" => key[2] = key[1]

\* normalize was applied twice to a name with a capital, whitespace to
\* collapse, an ampersand and a non-ASCII character.
C14_Witness ==
    /\ pc = "normalize_done"
    /\ name_in # None
    /\ {"A", "&", "\t", "U+1F355"} \subseteq Range(name_in)
    /\ key[1] # name_in
    /\ key[1] # <<>>

\* C15 as stated: normalize("Café – Déjà Vu 🍕") is "caf deja vu".
C15_CafeDejaVu ==
    (Len(key) >= 1 /\ name_in = CafeDejaVu) =>
        key[1] = <<"c", "a", "f", " ", "d", "e", "j", "a", " ", "v", "u">>

\* C15, amended: normalize("Café – Déjà Vu 🍕") is "caf dj vu": the accented
\* letters of "Déjà" are dropped like that of "Café".
C15_CafDjVu ==
    (Len(key) >= 1 /\ name_in = CafeDejaVu) =>
        key[1] = <<"c", "a", "f", " ", "d", "j", " ", "v", "u">>

\* normalize has returned on "Café – Déjà Vu 🍕".
C15_Witness ==
    /\ pc = "normalize_done"
    /\ name_in = CafeDejaVu
    /\ Len(key[1]) = 9

\* The key is a value of name_map and the sum of its day sequence, filled
\* with zeros when DailyCounts does not hold the key, is not zero.
ActiveRecord(k) ==
    /\ \E o \in DOMAIN mapping : mapping[o] = k
    /\ SumSeq(IF k \in DOMAIN counts THEN counts[k] ELSE <<0, 0, 0, 0, 0, 0, 0>>) # 0

\* C12: the report order holds every TrackerRecord exactly once; an active
\* record (a matched target of name_map with a non-zero day sequence)
\* precedes every other record; within each of the two groups the display
\* names ascend in code point order; and each ReportInput carries the
\* record's day sequence, seven zeros when DailyCounts lacks the key.
C12_ReportOrder ==
    pc \in {"generate", "done"} =>
        /\ Len(sorted_restaurants) = Cardinality(DOMAIN restaurants)
        /\ Range(sorted_restaurants) = DOMAIN restaurants
        /\ \A i \in 1..Len(sorted_restaurants) : \A j \in (i + 1)..Len(sorted_restaurants) :
              LET a == sorted_restaurants[i]
                  b == sorted_restaurants[j]
              IN  /\ ActiveRecord(b) => ActiveRecord(a)
                  /\ (ActiveRecord(a) <=> ActiveRecord(b)) =>
                        StrLess(restaurants[a].display_name, restaurants[b].display_name)
        /\ \A i \in 1..Len(html_files) :
              /\ html_files[i].key = sorted_restaurants[i]
              /\ html_files[i].orders_per_day =
                    IF html_files[i].key \in DOMAIN counts THEN counts[html_files[i].key]
                    ELSE <<0, 0, 0, 0, 0, 0, 0>>
        /\ pc = "done" => Len(html_files) = Len(sorted_restaurants)

\* A run on three records has ended: "azul", the one active record, comes
\* first although its name is the last in code point order, then "Pachi
\* Pizza" and "Zed", without orders in the week.
C12_Witness ==
    /\ pc = "done"
    /\ sorted_restaurants = <<<<"a","z","u","l">>, PachiPizzaKey, <<"z","e","d">>>>
    /\ ActiveRecord(<<"a","z","u","l">>)
    /\ ~ActiveRecord(PachiPizzaKey)
    /\ html_files[2].orders_per_day = <<0, 0, 0, 0, 0, 0, 0>>

\* The run has failed: an ingestion step raised, or the run stopped on it.
Failed == pc \in {"orders_raised", "tracker_raised", "stopped"}

\* No HTML file, PNG file or archive is written.
NoArtifacts == html_files = <<>> /\ png_files = {} /\ ~zip_written

\* The run has ended with an HTML file written, and so a PNG rendering
\* attempted, for every TrackerRecord.
Completed ==
    /\ pc = "done"
    /\ {html_files[i].key : i \in 1..Len(html_files)} = DOMAIN restaurants

C20_SameOrder ==
    pc \in {"count_done", "generate", "done"} =>
        /\ \A k \in DOMAIN restaurants :
              ActiveWeb(k, mapping, counts) <=> ActiveCli(k, mapping, counts)
        /\ sorted_items("web", restaurants, mapping, counts)
              = sorted_items("cli", restaurants, mapping, counts)

\* The counts are made; "pachi pizza" is a value of name_map without an
\* order in the week, and another restaurant has orders in the week.
C20_Witness ==
    /\ pc = "count_done"
    /\ PachiPizzaKey \in Values(mapping)
    /\ PachiPizzaKey \notin DOMAIN counts
    /\ DOMAIN counts # {}
    /\ Cardinality(DOMAIN restaurants) = 3

\* The similarity of the order key k to the tracker key t reaches the cutoff.
Similar(k, t) == ~DLess(ratio(t, k), Cutoff)

\* C13: when build_name_map has returned, every key of the map is an order
\* key and every value a tracker key; and an order key that is no tracker
\* key and is related to none by containment is in the map exactly when some
\* tracker key's similarity to it is 0.6 or more, and is then mapped to a
\* tracker key of the highest similarity.
C13_FuzzyFallback ==
    pc = "map_done" =>
        /\ DOMAIN mapping \subseteq Range(order_norms)
        /\ Values(mapping) \subseteq TrackerKeys
        /\ \A k \in Range(order_norms) :
              (k \notin TrackerKeys /\ \A t \in TrackerKeys : ~Related(k, t)) =>
                  /\ k \in DOMAIN mapping <=> \E t \in TrackerKeys : Similar(k, t)
                  /\ k \in DOMAIN mapping =>
                        \A u \in TrackerKeys : ~DLess(ratio(mapping[k], k), ratio(u, k))

\* The NormalizedKey and timestamp of the orders of the rows that keep(row)
\* holds of, in the rows' order.
OrdersOf(rs, keep(_)) ==
    LET kept == SelectSeq(rs, keep)
    IN  [i \in 1..Len(kept) |->
            [norm |-> normalize(RowGet(kept[i], "Place")),
             date |-> parse_date(RowGet(kept[i], "Date"))]]

\* The NormalizedKey and timestamp of the orders emitted.
Emitted == [i \in 1..Len(orders) |-> [norm |-> orders[i].norm, date |-> orders[i].date]]

\* The row has a non-empty place and a parseable date, its place is not an
\* excluded one, and its status, compared as it stands but for case, is
\* not an excluded one.
ValidRow(row) ==
    /\ RowGet(row, "Place") # <<>>
    /\ parse_date(RowGet(row, "Date")) # NoDate
    /\ normalize(RowGet(row, "Place")) \notin EXCLUDED_PLACES
    /\ Lower(RowGet(row, "Status")) \notin EXCLUDED_STATUSES

\* The same with the place and the status trimmed of surrounding whitespace.
ValidTrimmedRow(row) ==
    /\ Strip(RowGet(row, "Place")) # <<>>
    /\ parse_date(RowGet(row, "Date")) # NoDate
    /\ normalize(RowGet(row, "Place")) \notin EXCLUDED_PLACES
    /\ Lower(Strip(RowGet(row, "Status"))) \notin EXCLUDED_STATUSES

NameSkipped(row) ==
    \/ row[1] \in {None, <<>>}
    \/ Lower(Strip(row[1])) = <<"s","u","m">>

\* The same, or the row is one of the delimited text with fewer than 12 cells.
NameSkippedOrShort(row) ==
    \/ encoding = "csv" /\ Len(row) < 12
    \/ NameSkipped(row)

\* restaurants holds one record per NormalizedKey of the rows of trows that
\* skipped(row) does not hold of, each the record of the last such row.
OneRecordPerKey(skipped(_)) ==
    LET kept == {i \in 1..Len(trows) : ~skipped(trows[i])}
        last(k) == CHOOSE i \in kept :
                       /\ normalize(trows[i][1]) = k
                       /\ \A j \in kept : normalize(trows[j][1]) = k => j <= i
    IN  /\ DOMAIN restaurants = {normalize(trows[i][1]) : i \in kept}
        /\ \A k \in DOMAIN restaurants :
               restaurants[k] = TrackerRecord(frontend, encoding, trows[last(k)])

\* C17 as stated: when load_scorecard has returned, the result holds exactly
\* one record per distinct NormalizedKey among the rows whose name cell is
\* neither empty nor "sum" (trimmed and lowercased), and the record of a key
\* is that of the last such row in input order.
C17_LastRowWins ==
    pc = "tracker_done" => OneRecordPerKey(NameSkipped)

\* C17, amended: a row of the delimited text with fewer than 12 cells is
\* skipped too, whatever its name; among the other rows the statement holds.
C17_LastFullRowWins ==
    pc = "tracker_done" => OneRecordPerKey(NameSkippedOrShort)

\* load_scorecard has returned after two rows of one NormalizedKey with
\* different records, and holds the record of the second.
C17_Witness ==
    /\ pc = "tracker_done"
    /\ Len(trows) = 2
    /\ ~NameSkippedOrShort(trows[1]) /\ ~NameSkippedOrShort(trows[2])
    /\ normalize(trows[1][1]) = normalize(trows[2][1])
    /\ TrackerRecord(frontend, encoding, trows[1]) # TrackerRecord(frontend, encoding, trows[2])
    /\ DOMAIN restaurants = {normalize(trows[2][1])}
    /\ restaurants[normalize(trows[2][1])] = TrackerRecord(frontend, encoding, trows[2])

\* Some order of the week's window maps to the tracker key t through name_map.
CountedFor(t) ==
    \E i \in 1..Len(orders) :
        /\ InWindow(orders[i])
        /\ orders[i].norm \in DOMAIN mapping
        /\ mapping[orders[i].norm] = t

\* C19: when count_orders_by_day has returned, a key is present in
\* DailyCounts if and only if at least one order of the week's window maps
\* to it through name_map, the empty tracker key included; every present
\* sequence has 7 entries, none negative, that sum to 1 or more.
C19_PresentIffCounted ==
    pc = "count_done" =>
        /\ \A t \in (DOMAIN counts) \cup Values(mapping) :
               t \in DOMAIN counts <=> CountedFor(t)
        /\ \A t \in DOMAIN counts :
               /\ Len(counts[t]) = 7
               /\ \A d \in 1..7 : counts[t][d] >= 0
               /\ SumSeq(counts[t]) >= 1

====
